---- MODULE Spec2Model ----
(***************************************************************************)
(* xfetch (src/xfetch.js): a wrapper of the platform fetch with request    *)
(* normalisation (method, headers, body), a buffered response record and   *)
(* an Express-style middleware chain.                                      *)
(*                                                                         *)
(* JavaScript values are tagged records.  A JavaScript string is a         *)
(* sequence of character tokens; a token stands for a run of characters    *)
(* that no operation of the program splits ("application/json", "Alice").  *)
(* Bytes are the codes of the characters: TextEncoder maps a string to the *)
(* sequence of its codes, and a Blob is the concatenation of its parts.    *)
(***************************************************************************)
EXTENDS Integers, Sequences, FiniteSets, TLC

\* ---------------------------------------------------------------- bounds
\* Largest number that occurs in a value.
MaxNum == 2
\* Largest length of the registration list xfetch.middlewares.
MaxMiddlewares == 2
\* Most operations (response record calls and request record assignments)
\* the middlewares of one dispatch perform.
MaxOps == 2
\* Most calls of the Response Record's methods where one record is followed
\* through any sequence of them.
MaxResOps == 3

\* ------------------------------------------------------- JavaScript values
Undef == [t |-> "undefined"]
Null == [t |-> "null"]
Bool(b) == [t |-> "bool", b |-> b]
Num(n) == [t |-> "num", n |-> n]
Str(s) == [t |-> "str", s |-> s]
Obj(props) == [t |-> "obj", props |-> props]
Arr(items) == [t |-> "arr", items |-> items]
Prop(k, v) == [k |-> k, v |-> v]
\* instances of the platform classes the program tests with instanceof
BlobOf(bytes, type) == [t |-> "blob", bytes |-> bytes, type |-> type]
FormDataObj == [t |-> "formdata"]
URLSearchParamsOf(s) == [t |-> "usp", s |-> s]
Uint8ArrayOf(bytes) == [t |-> "u8", bytes |-> bytes]
ArrayBufferOf(bytes) == [t |-> "abuf", bytes |-> bytes]

\* ToBoolean: what `x ? a : b`, `!x` and `x || y` test
Truthy(v) ==
  CASE v.t = "undefined" -> FALSE
    [] v.t = "null" -> FALSE
    [] v.t = "bool" -> v.b
    [] v.t = "num" -> v.n # 0
    [] v.t = "str" -> v.s # <<>>
    [] OTHER -> TRUE

\* `x != null`
NotNullish(v) == v.t \notin {"undefined", "null"}

\* typeof x === 'object' (null included, as in the language)
TypeofObject(v) ==
  v.t \in {"null", "obj", "arr", "blob", "formdata", "usp", "u8", "abuf"}

\* items joined by commas
RECURSIVE JoinComma(_)
JoinComma(ss) ==
  IF ss = <<>> THEN <<>>
  ELSE IF Len(ss) = 1 THEN Head(ss)
  ELSE Head(ss) \o <<",">> \o JoinComma(Tail(ss))

\* String(x) for the values that reach a string conversion; an array is its
\* elements joined by commas, null and undefined elements as empty strings
RECURSIVE ToStr(_)
ToStr(v) ==
  CASE v.t = "str" -> v.s
    [] v.t = "num" -> <<ToString(v.n)>>
    [] v.t = "bool" -> IF v.b THEN <<"true">> ELSE <<"false">>
    [] v.t = "undefined" -> <<"undefined">>
    [] v.t = "null" -> <<"null">>
    [] v.t = "usp" -> v.s
    [] v.t = "blob" -> <<"[object Blob]">>
    [] v.t = "formdata" -> <<"[object FormData]">>
    [] v.t = "abuf" -> <<"[object ArrayBuffer]">>
    [] v.t = "arr" ->
         JoinComma([i \in DOMAIN v.items |->
                      IF NotNullish(v.items[i]) THEN ToStr(v.items[i]) ELSE <<>>])
    [] OTHER -> <<"[object Object]">>

\* concatenation of a sequence of sequences
RECURSIVE Flatten(_)
Flatten(ss) == IF ss = <<>> THEN <<>> ELSE Head(ss) \o Flatten(Tail(ss))

\* the properties JSON.stringify keeps: those whose value is not undefined
RECURSIVE SelectProps(_)
SelectProps(ps) ==
  IF ps = <<>> THEN <<>>
  ELSE IF Head(ps).v.t = "undefined" THEN SelectProps(Tail(ps))
       ELSE <<Head(ps)>> \o SelectProps(Tail(ps))

\* ---------------------------------------------------------------- JSON
\* JSON.stringify escapes the quote character inside a string literal.
QuoteTok == "\""
EscQuoteTok == "\\\""
JsonEscape(s) == [i \in DOMAIN s |-> IF s[i] = QuoteTok THEN EscQuoteTok ELSE s[i]]
JsonUnescape(s) == [i \in DOMAIN s |-> IF s[i] = EscQuoteTok THEN QuoteTok ELSE s[i]]
JsonStringLit(s) == <<QuoteTok>> \o JsonEscape(s) \o <<QuoteTok>>

\* the own enumerable properties of a typed array: its indices
IndexProps(bytes) == [i \in DOMAIN bytes |-> Prop(<<ToString(i - 1)>>, Num(bytes[i].b))]

\* The text JSON.stringify produces for a value other than undefined: a
\* property whose value is undefined is left out, an undefined array element
\* becomes null, a typed array is serialised as the object of its indices and
\* any other class instance as the object of its (no) own properties.
RECURSIVE JsonText(_)
JsonText(v) ==
  CASE v.t = "null" -> <<"null">>
    [] v.t = "undefined" -> <<"null">>
    [] v.t = "bool" -> IF v.b THEN <<"true">> ELSE <<"false">>
    [] v.t = "num" -> <<ToString(v.n)>>
    [] v.t = "str" -> JsonStringLit(v.s)
    [] v.t = "arr" ->
         <<"[">> \o JoinComma([i \in DOMAIN v.items |-> JsonText(v.items[i])]) \o <<"]">>
    [] v.t = "obj" ->
         LET ps == SelectProps(v.props)
         IN <<"{">>
            \o JoinComma([i \in DOMAIN ps |->
                            JsonStringLit(ps[i].k) \o <<":">> \o JsonText(ps[i].v)])
            \o <<"}">>
    [] v.t = "u8" -> JsonText(Obj(IndexProps(v.bytes)))
    [] OTHER -> <<"{", "}">>

\* JSON.stringify(v): a string, or undefined for undefined
JSONstringify(v) == IF v.t = "undefined" THEN Undef ELSE Str(JsonText(v))

NumTokens == {ToString(n) : n \in 0..MaxNum}
NumOfToken(tok) == CHOOSE n \in 0..MaxNum : ToString(n) = tok

ParseFail == [ok |-> FALSE, v |-> Undef, next |-> 0]
ParseOk(v, next) == [ok |-> TRUE, v |-> v, next |-> next]

\* position of the quote that closes a string literal opened before position i
RECURSIVE ClosingQuote(_, _)
ClosingQuote(toks, i) ==
  IF i > Len(toks) THEN 0
  ELSE IF toks[i] = QuoteTok THEN i
  ELSE ClosingQuote(toks, i + 1)

\* A recursive-descent reading of one JSON value of toks from position i:
\* [ok, v, next], next the position after the value.
RECURSIVE ParseValue(_, _), ParseElements(_, _, _), ParseMembers(_, _, _)
ParseValue(toks, i) ==
  IF i > Len(toks) THEN ParseFail
  ELSE LET c == toks[i] IN
    CASE c = "null" -> ParseOk(Null, i + 1)
      [] c = "true" -> ParseOk(Bool(TRUE), i + 1)
      [] c = "false" -> ParseOk(Bool(FALSE), i + 1)
      [] c \in NumTokens -> ParseOk(Num(NumOfToken(c)), i + 1)
      [] c = QuoteTok ->
           LET j == ClosingQuote(toks, i + 1)
           IN IF j = 0 THEN ParseFail
              ELSE ParseOk(Str(JsonUnescape(SubSeq(toks, i + 1, j - 1))), j + 1)
      [] c = "[" ->
           IF i + 1 <= Len(toks) /\ toks[i + 1] = "]"
           THEN ParseOk(Arr(<<>>), i + 2)
           ELSE ParseElements(toks, i + 1, <<>>)
      [] c = "{" ->
           IF i + 1 <= Len(toks) /\ toks[i + 1] = "}"
           THEN ParseOk(Obj(<<>>), i + 2)
           ELSE ParseMembers(toks, i + 1, <<>>)
      [] OTHER -> ParseFail
ParseElements(toks, i, acc) ==
  LET e == ParseValue(toks, i) IN
    IF ~e.ok \/ e.next > Len(toks) THEN ParseFail
    ELSE IF toks[e.next] = "]" THEN ParseOk(Arr(Append(acc, e.v)), e.next + 1)
    ELSE IF toks[e.next] = "," THEN ParseElements(toks, e.next + 1, Append(acc, e.v))
    ELSE ParseFail
ParseMembers(toks, i, acc) ==
  LET k == ParseValue(toks, i) IN
    IF ~k.ok \/ k.v.t # "str" \/ k.next > Len(toks) \/ toks[k.next] # ":"
    THEN ParseFail
    ELSE LET e == ParseValue(toks, k.next + 1) IN
      IF ~e.ok \/ e.next > Len(toks) THEN ParseFail
      ELSE LET
             \* a repeated key keeps its first position and its last value
             hit == {n \in DOMAIN acc : acc[n].k = k.v.s}
             acc2 == IF hit = {} THEN Append(acc, Prop(k.v.s, e.v))
                     ELSE [n \in DOMAIN acc |->
                             IF n \in hit THEN Prop(k.v.s, e.v) ELSE acc[n]]
           IN IF toks[e.next] = "}" THEN ParseOk(Obj(acc2), e.next + 1)
              ELSE IF toks[e.next] = "," THEN ParseMembers(toks, e.next + 1, acc2)
              ELSE ParseFail

\* JSON.parse(text): [ok, v]; ok is FALSE where JSON.parse throws SyntaxError
JSONparse(text) ==
  LET r == ParseValue(text, 1)
  IN IF r.ok /\ r.next = Len(text) + 1 THEN [ok |-> TRUE, v |-> r.v]
     ELSE [ok |-> FALSE, v |-> Undef]

\* ------------------------------------------------------ class Headers
\* A Headers container maps lower-cased names to values; a header object
\* literal (init.headers) is the sequence of its [k, v] entries in insertion
\* order.  Header names are single tokens, header values strings.
LowerName(k) ==
  CASE k \in {"Content-Type", "content-type", "CONTENT-TYPE"} -> "content-type"
    [] k \in {"Authorization", "authorization"} -> "authorization"
    [] k \in {"X-Id", "x-id"} -> "x-id"
    [] OTHER -> k

HeadersHas(h, name) == LowerName(name) \in DOMAIN h
\* Headers.get: the value, or null
HeadersGet(h, name) ==
  IF HeadersHas(h, name) THEN Str(h[LowerName(name)]) ELSE Null
HeadersSet(h, name, value) ==
  [n \in DOMAIN h \cup {LowerName(name)} |->
     IF n = LowerName(name) THEN value ELSE h[n]]
\* Headers.append: a repeated name has its values joined by ", "
HeadersAppend(h, name, value) ==
  IF HeadersHas(h, name)
  THEN HeadersSet(h, name, h[LowerName(name)] \o <<", ">> \o value)
  ELSE HeadersSet(h, name, value)
RECURSIVE HeadersFill(_, _)
HeadersFill(h, entries) ==
  IF entries = <<>> THEN h
  ELSE HeadersFill(HeadersAppend(h, Head(entries).k, Head(entries).v), Tail(entries))
EmptyHeaders == [n \in {} |-> <<>>]
\* new Headers(obj) for a header object literal
HeadersNew(entries) == HeadersFill(EmptyHeaders, entries)
\* Object.fromEntries(headers.entries()): a plain object keyed by the
\* lower-cased names the container iterates
ObjectFromEntries(h) == h

\* s.includes(tok) for a one-token pattern
Includes(s, tok) == \E i \in DOMAIN s : s[i] = tok

UpperTok(tok) ==
  CASE tok = "get" -> "GET"
    [] tok = "post" -> "POST"
    [] tok = "put" -> "PUT"
    [] tok = "delete" -> "DELETE"
    [] OTHER -> tok
toUpperCase(s) == [i \in DOMAIN s |-> UpperTok(s[i])]

CTJson == <<"application/json">>
CTForm == <<"application/x-www-form-urlencoded", ";charset=UTF-8">>
CTText == <<"text/plain">>

\* --------------------------------------------- xfetch: normalisation
\* xfetch.js:24  (init.method || (init.body ? 'POST' : 'GET')).toUpperCase()
MethodOf(init) ==
  toUpperCase(IF Truthy(init.method) THEN init.method.s
              ELSE IF Truthy(init.body) THEN <<"POST">> ELSE <<"GET">>)

\* xfetch.js:35-39: the test that selects the JSON branch
IsJsonBody(body) ==
  TypeofObject(body) /\ body.t # "blob" /\ body.t # "formdata"

\* xfetch.js:29, 40: the guard of both headers.set calls
KeepsContentType(headers) == HeadersHas(headers, "Content-Type")

\* xfetch.js:23-45: [headers, body] as handed to createReqObject and fetch.
\* init.headers is the sequence of the entries of the caller's header object,
\* empty when the caller gives none (init.headers || {}).
EncodeBody(init) ==
  LET headers == HeadersNew(init.headers)
      body == init.body
  IN IF NotNullish(body)
     THEN IF body.t = "usp"
          THEN [headers |-> IF KeepsContentType(headers) THEN headers
                            ELSE HeadersSet(headers, "Content-Type", CTForm),
                body |-> body]
          ELSE IF IsJsonBody(body)
          THEN [headers |-> IF KeepsContentType(headers) THEN headers
                            ELSE HeadersSet(headers, "Content-Type", CTJson),
                body |-> JSONstringify(body)]
          ELSE [headers |-> headers, body |-> body]
     ELSE [headers |-> headers, body |-> body]

\* the pieces of s between the separators sep
RECURSIVE SplitOn(_, _, _)
SplitOn(s, sep, cur) ==
  IF s = <<>> THEN <<cur>>
  ELSE IF Head(s) = sep THEN <<cur>> \o SplitOn(Tail(s), sep, <<>>)
  ELSE SplitOn(Tail(s), sep, Append(cur, Head(s)))
FirstIndex(s, tok) ==
  IF Includes(s, tok) THEN CHOOSE i \in DOMAIN s : s[i] = tok /\ \A j \in 1..(i - 1) : s[j] # tok
  ELSE 0
\* Object.fromEntries over name=value pieces: a repeated name keeps its first
\* position and its last value
RECURSIVE FormEntries(_, _)
FormEntries(pieces, acc) ==
  IF pieces = <<>> THEN acc
  ELSE LET p == Head(pieces)
           e == FirstIndex(p, "=")
           k == IF e = 0 THEN p ELSE SubSeq(p, 1, e - 1)
           v == IF e = 0 THEN <<>> ELSE SubSeq(p, e + 1, Len(p))
           hit == {n \in DOMAIN acc : acc[n].k = k}
           acc2 == IF hit = {} THEN Append(acc, Prop(k, Str(v)))
                   ELSE [n \in DOMAIN acc |-> IF n \in hit THEN Prop(k, Str(v)) ELSE acc[n]]
       IN IF p = <<>> THEN FormEntries(Tail(pieces), acc)
          ELSE FormEntries(Tail(pieces), acc2)
\* Object.fromEntries(new URLSearchParams(body)): a container is copied, a
\* class instance without entries gives none, anything else is converted to
\* a string and split
FormDecode(body) ==
  IF body.t \in {"blob", "formdata"} THEN Obj(<<>>)
  ELSE Obj(FormEntries(SplitOn(ToStr(body), "&", <<>>), <<>>))

\* parseBody without the decoding: the encoded body handed on as it is
parseBodyRaw(body, headers) == body
\* xfetch.js:101-116
parseBody(body, headers) ==
  LET type == HeadersGet(headers, "Content-Type")
  IN IF ~Truthy(body) \/ ~Truthy(type) THEN body
     ELSE IF Includes(type.s, "application/json")
     THEN LET r == JSONparse(ToStr(body)) IN IF r.ok THEN r.v ELSE body
     ELSE IF Includes(type.s, "application/x-www-form-urlencoded")
     THEN FormDecode(body)
     ELSE body

\* ------------------------------------------------ URL and query string
\* A URL is a string whose tokens are runs of characters and the delimiters
\* "?", "#", "&", "=", and "%5B", "%5D" for the percent-encoded brackets.
\* The URLs followed are paths relative to the base 'http://default'; the
\* query objects stay below the limits of qs.parse (depth 5, array index 20).

\* xfetch.js:22: input is a string or an object with a url
RequestLike(url) == [t |-> "request", url |-> url]
UrlOf(input) == IF input.t = "str" THEN input.s ELSE input.url

\* items joined by a separator
RECURSIVE JoinWith(_, _)
JoinWith(ss, sep) ==
  IF ss = <<>> THEN <<>>
  ELSE IF Len(ss) = 1 THEN Head(ss)
  ELSE Head(ss) \o <<sep>> \o JoinWith(Tail(ss), sep)

\* qs.stringify, the key=value pieces of the value v under the key prefix:
\* a primitive gives one piece, null an empty value, undefined none, an
\* array one per element under prefix[index], an object one per property
\* under prefix[key]; the brackets are percent-encoded.
RECURSIVE QsPairs(_, _)
QsPairs(prefix, v) ==
  CASE v.t \in {"num", "str", "bool"} -> <<prefix \o <<"=">> \o ToStr(v)>>
    [] v.t = "null" -> <<prefix \o <<"=">>>>
    [] v.t = "arr" ->
         Flatten([i \in DOMAIN v.items |->
                    QsPairs(prefix \o <<"%5B", ToString(i - 1), "%5D">>, v.items[i])])
    [] v.t = "obj" ->
         Flatten([i \in DOMAIN v.props |->
                    QsPairs(prefix \o <<"%5B">> \o v.props[i].k \o <<"%5D">>,
                            v.props[i].v)])
    [] OTHER -> <<>>
\* qs.stringify(query)
qsStringify(query) ==
  IF query.t = "obj"
  THEN JoinWith(Flatten([i \in DOMAIN query.props |->
                           QsPairs(query.props[i].k, query.props[i].v)]), "&")
  ELSE <<>>

\* xfetch.js:71-75
appendQueryParams(url, query) ==
  IF ~Truthy(query) THEN url
  ELSE IF Includes(url, "?") THEN url \o <<"&">> \o qsStringify(query)
  ELSE url \o <<"?">> \o qsStringify(query)

\* new URL(finalUrl, 'http://default'): the path runs to the first "?" or
\* "#", the query from a "?" before any "#" to the "#"; search is "?" and
\* the query, or empty when the query is
UrlBeforeHash(url) ==
  IF Includes(url, "#") THEN SubSeq(url, 1, FirstIndex(url, "#") - 1) ELSE url
UrlPathname(url) ==
  LET u == UrlBeforeHash(url)
  IN IF Includes(u, "?") THEN SubSeq(u, 1, FirstIndex(u, "?") - 1) ELSE u
UrlSearch(url) ==
  LET u == UrlBeforeHash(url)
      q == IF Includes(u, "?") THEN SubSeq(u, FirstIndex(u, "?") + 1, Len(u)) ELSE <<>>
  IN IF q = <<>> THEN <<>> ELSE <<"?">> \o q

\* qs.parse reads the percent-encoded brackets as brackets
QsBrackets(s) ==
  [i \in DOMAIN s |-> IF s[i] = "%5B" THEN "[" ELSE IF s[i] = "%5D" THEN "]" ELSE s[i]]
\* the segments of a key: what precedes the first bracket, then the content
\* of each bracket pair
RECURSIVE QsBracketSegments(_)
QsBracketSegments(s) ==
  IF s = <<>> \/ Head(s) # "[" \/ ~Includes(s, "]") THEN <<>>
  ELSE LET c == FirstIndex(s, "]")
       IN <<SubSeq(s, 2, c - 1)>> \o QsBracketSegments(SubSeq(s, c + 1, Len(s)))
QsSegments(key) ==
  IF Includes(key, "[")
  THEN LET b == FirstIndex(key, "[")
       IN (IF b = 1 THEN <<>> ELSE <<SubSeq(key, 1, b - 1)>>)
          \o QsBracketSegments(SubSeq(key, b, Len(key)))
  ELSE <<key>>
\* a bracketed segment that is an array index
QsIsIndex(seg) == Len(seg) = 1 /\ seg[1] \in NumTokens

\* the value of node with leaf put at path: an index segment makes or fills
\* an array (holes are closed up), any other segment an object
RECURSIVE QsInsert(_, _, _, _)
QsInsert(node, path, bracketed, leaf) ==
  IF path = <<>> THEN leaf
  ELSE LET seg == Head(path)
           isIdx == bracketed /\ QsIsIndex(seg)
           asObj == IF node.t = "arr"
                    THEN [i \in DOMAIN node.items |->
                            Prop(<<ToString(i - 1)>>, node.items[i])]
                    ELSE IF node.t = "obj" THEN node.props ELSE <<>>
           hit == {n \in DOMAIN asObj : asObj[n].k = seg}
       IN IF isIdx /\ node.t \notin {"obj"}
          THEN LET items == IF node.t = "arr" THEN node.items ELSE <<>>
                   n == NumOfToken(seg[1]) + 1
               IN IF n <= Len(items)
                  THEN Arr([items EXCEPT ![n] = QsInsert(@, Tail(path), TRUE, leaf)])
                  ELSE Arr(Append(items, QsInsert(Undef, Tail(path), TRUE, leaf)))
          ELSE IF hit = {}
          THEN Obj(Append(asObj, Prop(seg, QsInsert(Undef, Tail(path), TRUE, leaf))))
          ELSE Obj([n \in DOMAIN asObj |->
                      IF n \in hit
                      THEN Prop(seg, QsInsert(asObj[n].v, Tail(path), TRUE, leaf))
                      ELSE asObj[n]])
RECURSIVE QsFill(_, _)
QsFill(acc, pieces) ==
  IF pieces = <<>> THEN acc
  ELSE LET p == QsBrackets(Head(pieces))
           e == FirstIndex(p, "=")
           k == IF e = 0 THEN p ELSE SubSeq(p, 1, e - 1)
           v == IF e = 0 THEN <<>> ELSE SubSeq(p, e + 1, Len(p))
           path == QsSegments(k)
       IN IF k = <<>> \/ path = <<>> THEN QsFill(acc, Tail(pieces))
          ELSE QsFill(QsInsert(acc, path, FALSE, Str(v)), Tail(pieces))
\* qs.parse(str): an object whose leaves are strings
qsParse(str) == QsFill(Obj(<<>>), SplitOn(str, "&", <<>>))

\* /^\d+$/.test(v) converts v to a string first
AllDigits(v) ==
  LET str == ToStr(v) IN str # <<>> /\ \A i \in DOMAIN str : str[i] \in NumTokens
\* Number(v) for such a v: the digits read in base ten
RECURSIVE DigitsValue(_)
DigitsValue(str) ==
  IF str = <<>> THEN 0
  ELSE 10 * DigitsValue(SubSeq(str, 1, Len(str) - 1)) + NumOfToken(str[Len(str)])
\* xfetch.js:85-86: the replacer, applied by JSON.stringify to a value
\* before it descends into it
RECURSIVE Replaced(_)
Replaced(v) ==
  IF AllDigits(v) THEN Num(DigitsValue(ToStr(v)))
  ELSE CASE v.t = "arr" -> Arr([i \in DOMAIN v.items |-> Replaced(v.items[i])])
         [] v.t = "obj" ->
              Obj([i \in DOMAIN v.props |-> Prop(v.props[i].k, Replaced(v.props[i].v))])
         [] OTHER -> v
\* xfetch.js:83-87: query of the Request Record
ParseQuery(search) ==
  JSONparse(JsonText(Replaced(qsParse(SubSeq(search, 2, Len(search)))))).v

\* xfetch.js:82-99 (method, url, headers, query and body of the Request
\* Record; url is the parsed URL of the composed one)
createReqObject(url, method, headers, body) ==
  [method |-> method,
   url |-> UrlPathname(url) \o UrlSearch(url),
   headers |-> ObjectFromEntries(headers),
   query |-> ParseQuery(UrlSearch(url)),
   body |-> parseBody(body, headers)]

\* xfetch.js:66: the second argument of fetch, { ...init, method, headers, body }
FetchArgs(method, headers, body) ==
  [method |-> method, headers |-> headers, body |-> body]

\* ------------------------------------------- createResObject (118-170)
\* The Response Record: _sent, statusCode, headers (a plain object: its
\* entries in insertion order, keys compared exactly), the bodyChunks of the
\* closure and response, the deliverable (NoResponse until end assigns it).
NoResponse == [t |-> "undefined"]
createResObject ==
  [_sent |-> FALSE, statusCode |-> 200, headers |-> <<>>, bodyChunks |-> <<>>,
   response |-> NoResponse]

\* obj[key] = value on a plain object
ObjSet(entries, key, value) ==
  IF \E n \in DOMAIN entries : entries[n].k = key
  THEN [n \in DOMAIN entries |-> IF entries[n].k = key THEN Prop(key, value) ELSE entries[n]]
  ELSE Append(entries, Prop(key, value))
\* obj[key], undefined when absent
ObjGet(entries, key) ==
  IF \E n \in DOMAIN entries : entries[n].k = key
  THEN Str(entries[CHOOSE n \in DOMAIN entries : entries[n].k = key].v)
  ELSE Undef

\* status that also writes through to a deliverable already built
statusLive(res, code) ==
  [res EXCEPT !.statusCode = code,
              !.response = IF @.t = "response" THEN [@ EXCEPT !.status = code] ELSE @]
\* xfetch.js:125-128
status(res, code) == [res EXCEPT !.statusCode = code]
\* xfetch.js:129-131
setHeader(res, key, value) == [res EXCEPT !.headers = ObjSet(@, key, value)]
\* xfetch.js:132-134
getHeader(res, key) == ObjGet(res.headers, key)

\* A byte is the code of a character, [c |-> token], or a raw byte [b |-> n]
\* that is no character's code.
CharByte(tok) == [c |-> tok]
RawByte(n) == [b |-> n]
\* new TextEncoder().encode(s): the codes of the characters of s
TextEncode(s) == [i \in DOMAIN s |-> CharByte(s[i])]
\* TextDecoder.decode: a byte that is no character's code decodes to U+FFFD
TextDecode(bytes) ==
  [i \in DOMAIN bytes |-> IF "c" \in DOMAIN bytes[i] THEN bytes[i].c ELSE "U+FFFD"]
\* xfetch.js:135-143
write(res, chunk) ==
  IF chunk.t = "str" THEN [res EXCEPT !.bodyChunks = Append(@, TextEncode(chunk.s))]
  ELSE IF chunk.t = "u8" THEN [res EXCEPT !.bodyChunks = Append(@, chunk.bytes)]
  ELSE IF NotNullish(chunk)
  THEN [res EXCEPT !.bodyChunks = Append(@, TextEncode(ToStr(chunk)))]
  ELSE res

\* The statuses for which new Response(body, { status }) throws: outside
\* 200..599 (RangeError), or a null-body status with a body (TypeError).
ResponseThrows(code) == code < 200 \/ code > 599 \/ code \in {204, 205, 304}

\* new Response(blob, { status, headers }): the header object fills a Headers
\* container; the blob's type is used when that leaves Content-Type unset.
NewResponse(blob, code, headers) ==
  LET h == HeadersNew(headers)
  IN [t |-> "response",
      status |-> code,
      headers |-> IF HeadersHas(h, "Content-Type") THEN h
                  ELSE HeadersSet(h, "Content-Type", blob.type),
      body |-> blob.bytes]

\* xfetch.js:145: the guard of end's write
EndWrites(chunk) == Truthy(chunk)

\* end that empties the buffer once the deliverable is built
endFlushing(res, chunk) ==
  LET w == IF EndWrites(chunk) THEN write(res, chunk) ELSE res
      ct == ObjGet(w.headers, "Content-Type")
      blob == BlobOf(Flatten(w.bodyChunks), IF Truthy(ct) THEN ct.s ELSE CTText)
  IN IF ResponseThrows(w.statusCode)
     THEN [w EXCEPT !._sent = TRUE]
     ELSE [w EXCEPT !._sent = TRUE, !.bodyChunks = <<>>,
                    !.response = NewResponse(blob, w.statusCode, w.headers)]
\* xfetch.js:144-154.  When new Response throws, _sent is already set and
\* response keeps its previous value.
end(res, chunk) ==
  LET w == IF EndWrites(chunk) THEN write(res, chunk) ELSE res
      ct == ObjGet(w.headers, "Content-Type")
      blob == BlobOf(Flatten(w.bodyChunks), IF Truthy(ct) THEN ct.s ELSE CTText)
  IN IF ResponseThrows(w.statusCode)
     THEN [w EXCEPT !._sent = TRUE]
     ELSE [w EXCEPT !._sent = TRUE,
                    !.response = NewResponse(blob, w.statusCode, w.headers)]
\* xfetch.js:155-158
\* json without its setHeader
jsonNoHeader(res, data) == end(res, JSONstringify(data))
json(res, data) == end(setHeader(res, "Content-Type", CTJson), JSONstringify(data))
\* xfetch.js:159-168
send(res, data) ==
  IF TypeofObject(data) /\ data.t # "null" /\ data.t # "blob"
  THEN end(setHeader(res, "Content-Type", CTJson), JSONstringify(data))
  ELSE end(res, data)

\* A call of a method of the Response Record
OpStatus(code) == [op |-> "status", code |-> code]
OpSetHeader(k, v) == [op |-> "setHeader", k |-> k, v |-> v]
OpWrite(chunk) == [op |-> "write", arg |-> chunk]
OpEnd(chunk) == [op |-> "end", arg |-> chunk]
OpJson(data) == [op |-> "json", arg |-> data]
OpSend(data) == [op |-> "send", arg |-> data]
ApplyOp(res, o) ==
  CASE o.op = "status" -> status(res, o.code)
    [] o.op = "setHeader" -> setHeader(res, o.k, o.v)
    [] o.op = "write" -> write(res, o.arg)
    [] o.op = "end" -> end(res, o.arg)
    [] o.op = "json" -> json(res, o.arg)
    [] o.op = "send" -> send(res, o.arg)
\* whether the call throws: only new Response, reached by end, can
Finalizes(o) == o.op \in {"end", "json", "send"}
OpThrows(res, o) == Finalizes(o) /\ ResponseThrows(res.statusCode)

\* response.json() / response.text() at the caller: the body decoded
DecodeBody(response) == JSONparse(TextDecode(response.body))

\* ------------------------------------------------------------- state
\* The calls of xfetch the model follows.
Dispatches == {1, 2}
\* The positions of xfetch.middlewares that can hold an entry.
Frames == 0..(MaxMiddlewares - 1)

VARIABLES
  middlewares,  \* xfetch.middlewares: its length (what an entry does is the
                \* choice of the Mw actions)
  pc,           \* per call: "idle", "chain" (awaiting runMiddlewares),
                \* "done" (returned a value), "failed" (rejected)
  args,         \* per call: init, as the caller gave it
  locals,       \* per call: the method, headers and body of xfetch's scope
  req,          \* per call: the Request Record
  res,          \* per call: the Response Record
  index,        \* per call: runMiddlewares' index
  st,           \* per call and position: the invocation of the middleware,
                \* "none", "run", "ret" (its promise fulfilled), "err" (rejected)
  ferr,         \* per call and position: the error the invocation rejected with
  called,       \* per call and position: next(i)'s called flag
  got,          \* per call and position: the promise the invocation holds
                \* from its last call of a continuation
  calls,        \* per call and position: how often the continuation handed to
                \* the middleware was invoked: 0, 1, or 2 for twice or more
  lastCall,     \* per call: the last invocation of a continuation
  order,        \* per call: the positions whose middleware was started, in order
  log,          \* per call: the operations its middlewares performed
  net,          \* per call: the arguments of its calls of fetch
  result        \* per call: what xfetch returned or threw

vars == <<middlewares, pc, args, locals, req, res, index, st, ferr, called, got,
          calls, lastCall, order, log, net, result>>

NoErr == [kind |-> "none", at |-> -1]
\* Error(`next() called multiple times in middleware at index ${k}`)
DoubleInvocation(k) == [kind |-> "double", at |-> k]
\* an error the code of middleware i throws
UserError(i) == [kind |-> "user", at |-> i]
\* the error new Response throws inside a call middleware i makes
ResponseError(i) == [kind |-> "response", at |-> i]

NoPromise == [p |-> "none", j |-> -1, err |-> NoErr]
\* the promise of next(j) while it awaits the middleware at j
FramePromise(j) == [p |-> "frame", j |-> j, err |-> NoErr]
Fulfilled == [p |-> "resolved", j |-> -1, err |-> NoErr]
Rejected(e) == [p |-> "rejected", j |-> -1, err |-> e]

NoCall == [k |-> -1, by |-> -1, nth |-> 0, outcome |-> "none"]
NoResult == [kind |-> "none", value |-> NoResponse, err |-> NoErr, log |-> <<>>]
NoLocals == [finalUrl |-> <<>>, method |-> <<>>, headers |-> EmptyHeaders, body |-> Undef]
NoInit == [input |-> Str(<<>>), query |-> Undef, method |-> Undef, headers |-> <<>>,
           body |-> Undef]

InitCalls ==
  /\ pc = [d \in Dispatches |-> "idle"]
  /\ args = [d \in Dispatches |-> NoInit]
  /\ locals = [d \in Dispatches |-> NoLocals]
  /\ req = [d \in Dispatches |-> createReqObject(<<>>, <<>>, EmptyHeaders, Undef)]
  /\ res = [d \in Dispatches |-> createResObject]
  /\ index = [d \in Dispatches |-> -1]
  /\ st = [d \in Dispatches |-> [i \in Frames |-> "none"]]
  /\ ferr = [d \in Dispatches |-> [i \in Frames |-> NoErr]]
  /\ called = [d \in Dispatches |-> [i \in Frames |-> FALSE]]
  /\ got = [d \in Dispatches |-> [i \in Frames |-> NoPromise]]
  /\ calls = [d \in Dispatches |-> [i \in Frames |-> 0]]
  /\ lastCall = [d \in Dispatches |-> NoCall]
  /\ order = [d \in Dispatches |-> <<>>]
  /\ log = [d \in Dispatches |-> <<>>]
  /\ net = [d \in Dispatches |-> <<>>]
  /\ result = [d \in Dispatches |-> NoResult]

\* xfetch.js:69: xfetch.middlewares = []
Init == middlewares = 0 /\ InitCalls

\* ------------------------------------------- runMiddlewares (172-199)
\* a chain walked from the second entry
ChainStartOne == 0 + 1
\* xfetch.js:175, 198: runMiddlewares calls next(), and i defaults to 0
ChainStart == 0
\* an index guard that is off by one
IndexGuardOffByOne(i, idx) == i <= idx + 1
\* xfetch.js:176: the index guard of next(i)
IndexGuard(i, idx) == i <= idx
\* xfetch.js:183-184: xfetch.middlewares[i] is an entry
Lookup(list, i) == i >= 0 /\ i < list
\* a continuation without its single-use guard
ContinuationGuardOff(flag) == FALSE
\* xfetch.js:188: the single-use guard of the continuation
ContinuationGuard(flag) == flag
\* a chain skipping every other entry
ContinuationSkip(i) == i + 2
\* xfetch.js:194: the index the continuation of next(i) advances to
ContinuationTarget(i) == i + 1

\* invocations are counted as 0, 1, or 2 for twice or more
Count(n) == IF n > 2 THEN 2 ELSE n

\* What a call of next(j) does: "rejected" (the index guard throws, which
\* rejects the promise of the async function), "started" (the middleware at
\* j is invoked) or "ended" (no entry at j: the promise is fulfilled).
NextOutcome(d, j) ==
  IF IndexGuard(j, index[d]) THEN "rejected"
  ELSE IF Lookup(middlewares, j) THEN "started"
  ELSE "ended"
\* the promise next(j) returns
NextPromise(d, j) ==
  CASE NextOutcome(d, j) = "rejected" -> Rejected(DoubleInvocation(j - 1))
    [] NextOutcome(d, j) = "started" -> FramePromise(j)
    [] OTHER -> Fulfilled
\* next(j) with one index shared by all calls of xfetch
NextEffectsShared(d, j) ==
  LET o == NextOutcome(d, j) IN
  /\ index' = IF o = "rejected" THEN index ELSE [e \in Dispatches |-> j]
  /\ order' = IF o = "started" THEN [order EXCEPT ![d] = Append(@, j)] ELSE order
  /\ ferr' = IF o = "started" THEN [ferr EXCEPT ![d][j] = NoErr] ELSE ferr
\* the state a call of next(j) leaves (xfetch.js:182-187)
NextEffects(d, j) ==
  LET o == NextOutcome(d, j) IN
  /\ index' = IF o = "rejected" THEN index ELSE [index EXCEPT ![d] = j]
  /\ order' = IF o = "started" THEN [order EXCEPT ![d] = Append(@, j)] ELSE order
  /\ ferr' = IF o = "started" THEN [ferr EXCEPT ![d][j] = NoErr] ELSE ferr

\* "pending", "resolved" or "rejected"
PromiseState(d, pr) ==
  CASE pr.p = "resolved" -> "resolved"
    [] pr.p = "rejected" -> "rejected"
    [] pr.p = "frame" ->
         (CASE st[d][pr.j] = "ret" -> "resolved"
            [] st[d][pr.j] = "err" -> "rejected"
            [] OTHER -> "pending")
    [] OTHER -> "pending"
PromiseErr(d, pr) == IF pr.p = "frame" THEN ferr[d][pr.j] ELSE pr.err

\* the promise runMiddlewares awaits: that of next(0)
TopPromise(d) ==
  IF st[d][ChainStart] = "none" THEN Fulfilled ELSE FramePromise(ChainStart)

\* ------------------------------------------------------------ actions
\* xfetch.middlewares.push(mw)
Register ==
  /\ middlewares < MaxMiddlewares
  /\ middlewares' = middlewares + 1
  /\ UNCHANGED <<pc, args, locals, req, res, index, st, ferr, called, got, calls,
                 lastCall, order, log, net, result>>

\* xfetch(input, init) up to its await (xfetch.js:21-63): normalise, build the
\* two records and enter runMiddlewares, which calls next(0).
Xfetch(d, init) ==
  /\ pc[d] = "idle"
  /\ LET method == MethodOf(init)
         hb == EncodeBody(init)
         finalUrl == appendQueryParams(UrlOf(init.input), init.query)
         o == NextOutcome(d, ChainStart)
     IN /\ args' = [args EXCEPT ![d] = init]
        /\ locals' = [locals EXCEPT ![d] =
              [finalUrl |-> finalUrl, method |-> method, headers |-> hb.headers,
               body |-> hb.body]]
        /\ req' = [req EXCEPT ![d] =
              createReqObject(finalUrl, method, hb.headers, hb.body)]
        /\ res' = [res EXCEPT ![d] = createResObject]
        /\ NextEffects(d, ChainStart)
        /\ st' = IF o = "started" THEN [st EXCEPT ![d][ChainStart] = "run"] ELSE st
        /\ called' = IF o = "started" THEN [called EXCEPT ![d][ChainStart] = FALSE]
                     ELSE called
        /\ got' = IF o = "started" THEN [got EXCEPT ![d][ChainStart] = NoPromise] ELSE got
  /\ pc' = [pc EXCEPT ![d] = "chain"]
  /\ UNCHANGED <<middlewares, calls, lastCall, log, net, result>>

\* Middleware i invokes the continuation handed to middleware k (its own, or
\* one it got hold of through the shared records).  A second invocation
\* throws in the caller, which catches the error or fails with it.
MwCall(d, i, k, caught) ==
  /\ pc[d] # "idle"
  /\ st[d][i] = "run"
  /\ st[d][k] # "none"
  /\ calls' = [calls EXCEPT ![d][k] = Count(@ + 1)]
  /\ IF ContinuationGuard(called[d][k])
     THEN /\ lastCall' = [lastCall EXCEPT ![d] =
                 [k |-> k, by |-> i, nth |-> Count(calls[d][k] + 1), outcome |-> "threw"]]
          /\ st' = IF caught THEN st ELSE [st EXCEPT ![d][i] = "err"]
          /\ ferr' = IF caught THEN ferr ELSE [ferr EXCEPT ![d][i] = DoubleInvocation(k)]
          /\ UNCHANGED <<index, order, called, got>>
     ELSE LET j == ContinuationTarget(k)
              o == NextOutcome(d, j)
          IN /\ lastCall' = [lastCall EXCEPT ![d] =
                    [k |-> k, by |-> i, nth |-> Count(calls[d][k] + 1), outcome |-> o]]
             /\ NextEffects(d, j)
             /\ st' = IF o = "started" THEN [st EXCEPT ![d][j] = "run"] ELSE st
             /\ called' = [called EXCEPT ![d] =
                   [x \in Frames |-> IF o = "started" /\ x = j THEN FALSE
                                     ELSE IF x = k THEN TRUE ELSE @[x]]]
             /\ got' = [got EXCEPT ![d] =
                   [x \in Frames |-> IF x = i THEN NextPromise(d, j)
                                     ELSE IF o = "started" /\ x = j THEN NoPromise
                                     ELSE @[x]]]
  /\ UNCHANGED <<middlewares, pc, args, locals, req, res, log, net, result>>

\* Middleware i awaits the promise it holds, once that is settled: it goes
\* on after a fulfilment; a rejection throws in it, caught or not.
MwAwait(d, i, caught) ==
  /\ st[d][i] = "run"
  /\ PromiseState(d, got[d][i]) \in {"resolved", "rejected"}
  /\ got' = [got EXCEPT ![d][i] = NoPromise]
  /\ IF PromiseState(d, got[d][i]) = "rejected" /\ ~caught
     THEN /\ st' = [st EXCEPT ![d][i] = "err"]
          /\ ferr' = [ferr EXCEPT ![d][i] = PromiseErr(d, got[d][i])]
     ELSE UNCHANGED <<st, ferr>>
  /\ UNCHANGED <<middlewares, pc, args, locals, req, res, index, called, calls,
                 lastCall, order, log, net, result>>

\* Middleware i returns: its promise is fulfilled.
MwReturn(d, i) ==
  /\ st[d][i] = "run"
  /\ st' = [st EXCEPT ![d][i] = "ret"]
  /\ got' = [got EXCEPT ![d][i] = NoPromise]
  /\ UNCHANGED <<middlewares, pc, args, locals, req, res, index, ferr, called, calls,
                 lastCall, order, log, net, result>>

\* Middleware i throws an error of its own: its promise is rejected.
MwThrow(d, i) ==
  /\ st[d][i] = "run"
  /\ st' = [st EXCEPT ![d][i] = "err"]
  /\ ferr' = [ferr EXCEPT ![d][i] = UserError(i)]
  /\ got' = [got EXCEPT ![d][i] = NoPromise]
  /\ UNCHANGED <<middlewares, pc, args, locals, req, res, index, called, calls,
                 lastCall, order, log, net, result>>

\* req.method = v, req.headers[k] = v, req.body = v in a middleware
ReqMethod(m) == [op |-> "req.method", m |-> m]
ReqHeader(k, v) == [op |-> "req.headers", k |-> k, v |-> v]
ReqBody(b) == [op |-> "req.body", b |-> b]
IsReqOp(o) == o.op \in {"req.method", "req.headers", "req.body"}
AssignReq(r, o) ==
  CASE o.op = "req.method" -> [r EXCEPT !.method = o.m]
    [] o.op = "req.headers" ->
         [r EXCEPT !.headers = [n \in DOMAIN r.headers \cup {o.k} |->
                                  IF n = o.k THEN o.v ELSE r.headers[n]]]
    [] o.op = "req.body" -> [r EXCEPT !.body = o.b]

\* Middleware i assigns to a field of the Request Record.
MwReq(d, i, o) ==
  /\ st[d][i] = "run"
  /\ Len(log[d]) < MaxOps
  /\ req' = [req EXCEPT ![d] = AssignReq(@, o)]
  /\ log' = [log EXCEPT ![d] = Append(@, o)]
  /\ UNCHANGED <<middlewares, pc, args, locals, res, index, st, ferr, called, got,
                 calls, lastCall, order, net, result>>

\* Middleware i calls a method of the Response Record; when new Response
\* throws in it, the middleware catches the error or fails with it.
MwResUpTo(d, i, o, caught, most) ==
  /\ st[d][i] = "run"
  /\ Len(log[d]) < most
  /\ res' = [res EXCEPT ![d] = ApplyOp(@, o)]
  /\ log' = [log EXCEPT ![d] = Append(@, o)]
  /\ IF OpThrows(res[d], o) /\ ~caught
     THEN /\ st' = [st EXCEPT ![d][i] = "err"]
          /\ ferr' = [ferr EXCEPT ![d][i] = ResponseError(i)]
          /\ got' = [got EXCEPT ![d][i] = NoPromise]
     ELSE UNCHANGED <<st, ferr, got>>
  /\ UNCHANGED <<middlewares, pc, args, locals, req, index, called, calls,
                 lastCall, order, net, result>>
MwRes(d, i, o, caught) == MwResUpTo(d, i, o, caught, MaxOps)

\* xfetch.js:64: the test that chooses between the deliverable and fetch
TakesResponse(r) == r._sent
\* xfetch.js:66: what fetch is called with
\* fetch called with the fields of the Request Record
NetworkCallReq(d) == FetchArgs(req[d].method, req[d].headers, req[d].body)
NetworkCall(d) == FetchArgs(locals[d].method, locals[d].headers, locals[d].body)

\* xfetch.js:63-65: runMiddlewares has resolved and res._sent is set
ReturnResponse(d) ==
  /\ pc[d] = "chain"
  /\ PromiseState(d, TopPromise(d)) = "resolved"
  /\ TakesResponse(res[d])
  /\ pc' = [pc EXCEPT ![d] = "done"]
  /\ result' = [result EXCEPT ![d] =
        [kind |-> "response", value |-> res[d].response, err |-> NoErr, log |-> log[d]]]
  /\ UNCHANGED <<middlewares, args, locals, req, res, index, st, ferr, called, got,
                 calls, lastCall, order, log, net>>

\* xfetch.js:63-66: runMiddlewares has resolved and res._sent is not set
Fetch(d) ==
  /\ pc[d] = "chain"
  /\ PromiseState(d, TopPromise(d)) = "resolved"
  /\ ~TakesResponse(res[d])
  /\ pc' = [pc EXCEPT ![d] = "done"]
  /\ net' = [net EXCEPT ![d] = Append(@, NetworkCall(d))]
  /\ result' = [result EXCEPT ![d] =
        [kind |-> "network", value |-> NoResponse, err |-> NoErr, log |-> log[d]]]
  /\ UNCHANGED <<middlewares, args, locals, req, res, index, st, ferr, called, got,
                 calls, lastCall, order, log>>

\* xfetch.js:63: runMiddlewares has rejected; the await throws and xfetch
\* rejects with the same error
Fail(d) ==
  /\ pc[d] = "chain"
  /\ PromiseState(d, TopPromise(d)) = "rejected"
  /\ pc' = [pc EXCEPT ![d] = "failed"]
  /\ result' = [result EXCEPT ![d] =
        [kind |-> "error", value |-> NoResponse,
         err |-> PromiseErr(d, TopPromise(d)), log |-> log[d]]]
  /\ UNCHANGED <<middlewares, args, locals, req, res, index, st, ferr, called, got,
                 calls, lastCall, order, log, net>>

\* --------------------------------------------------- inputs and specs
Alice == Obj(<<Prop(<<"name">>, Str(<<"Alice">>))>>)
Mocked == Obj(<<Prop(<<"a">>, Num(1))>>)

\* init of the README's Quick Start (a body and nothing else), and no init
ApiUser == Str(<<"/api/user">>)
QuickStart ==
  [input |-> ApiUser, query |-> Undef, method |-> Undef, headers |-> <<>>, body |-> Alice]
InitsEngine == {QuickStart}
InitsRecords == {QuickStart, [QuickStart EXCEPT !.body = Undef]}

\* the calls of the Response Record's methods the middlewares choose from
ResOps ==
  {OpWrite(Str(<<"x">>)), OpEnd(Undef), OpJson(Mocked),
   OpSetHeader("content-type", <<"text/html">>), OpStatus(204)}
\* the assignments to the Request Record the middlewares choose from
ReqOps ==
  {ReqMethod(<<"PUT">>), ReqHeader("Authorization", <<"Bearer my-token">>),
   ReqBody(Str(<<"changed">>))}

\* the calls of xfetch that are made
Callers == {1}

\* One call of xfetch whose middlewares invoke any continuation of the call
\* any number of times, await or drop the promises, catch or fail, return or
\* throw, and may end the response; the list grows while the call is in flight.
Next ==
  \/ Register
  \/ \E d \in Callers, init \in InitsEngine : Xfetch(d, init)
  \/ \E d \in Callers, i \in Frames, k \in Frames, caught \in BOOLEAN : MwCall(d, i, k, caught)
  \/ \E d \in Callers, i \in Frames, caught \in BOOLEAN : MwAwait(d, i, caught)
  \/ \E d \in Callers, i \in Frames : MwReturn(d, i)
  \/ \E d \in Callers, i \in Frames : MwThrow(d, i)
  \/ \E d \in Callers, i \in Frames, caught \in BOOLEAN : MwRes(d, i, OpEnd(Undef), caught)
  \/ \E d \in Callers : ReturnResponse(d)
  \/ \E d \in Callers : Fetch(d)
  \/ \E d \in Callers : Fail(d)

Spec == Init /\ [][Next]_vars

\* One call of xfetch over a list registered beforehand, whose middlewares
\* work on the two records: each may assign to the Request Record, call the
\* Response Record's methods, invoke its own continuation, await it or not,
\* return or throw.
InitRecords ==
  /\ middlewares \in 0..MaxMiddlewares
  /\ InitCalls

NextRecords ==
  \/ \E d \in Callers, init \in InitsRecords : Xfetch(d, init)
  \/ \E d \in Callers, i \in Frames : MwCall(d, i, i, FALSE)
  \/ \E d \in Callers, i \in Frames : MwAwait(d, i, FALSE)
  \/ \E d \in Callers, i \in Frames : MwReturn(d, i)
  \/ \E d \in Callers, i \in Frames : MwThrow(d, i)
  \/ \E d \in Callers, i \in Frames, o \in ReqOps : MwReq(d, i, o)
  \/ \E d \in Callers, i \in Frames, o \in ResOps, caught \in BOOLEAN : MwRes(d, i, o, caught)
  \/ \E d \in Callers : ReturnResponse(d)
  \/ \E d \in Callers : Fetch(d)
  \/ \E d \in Callers : Fail(d)

SpecRecords == InitRecords /\ [][NextRecords]_vars

\* The values of init the normalisation is followed for.
MethodInits == {Undef, Str(<<>>), Str(<<"put">>), Str(<<"DELETE">>)}
HeaderInits ==
  {<<>>,
   <<Prop("Content-Type", CTText)>>,
   <<Prop("content-type", <<"application/json", "; charset=utf-8">>)>>,
   <<Prop("CONTENT-TYPE", CTForm)>>,
   <<Prop("X-Id", <<"7">>)>>}
BodyInits ==
  {Undef, Null, Str(<<>>), Str(<<"hello">>), Str(JsonText(Mocked)),
   Str(<<"a", "=", "1">>), Num(0), Num(1), Bool(FALSE),
   Alice, Obj(<<>>), Obj(<<Prop(<<"a">>, Undef), Prop(<<"b">>, Num(1))>>),
   Arr(<<Num(1), Str(<<"x">>)>>), Arr(<<>>),
   BlobOf(<<RawByte(1)>>, <<>>), FormDataObj,
   URLSearchParamsOf(<<"a", "=", "1", "&", "b", "=", "2">>),
   Uint8ArrayOf(<<RawByte(1), RawByte(2)>>), ArrayBufferOf(<<RawByte(1)>>)}
InitsNorm ==
  {[input |-> ApiUser, query |-> Undef, method |-> m, headers |-> h, body |-> b] :
     m \in MethodInits, h \in HeaderInits, b \in BodyInits}

\* One call of xfetch with any init, over a list registered beforehand whose
\* middlewares pass the call on (or fail to) and leave the records alone.
NextNorm ==
  \/ \E d \in Callers, init \in InitsNorm : Xfetch(d, init)
  \/ \E d \in Callers, i \in Frames : MwCall(d, i, i, FALSE)
  \/ \E d \in Callers, i \in Frames : MwAwait(d, i, FALSE)
  \/ \E d \in Callers, i \in Frames : MwReturn(d, i)
  \/ \E d \in Callers : Fetch(d)
  \/ \E d \in Callers : Fail(d)

SpecNorm == InitRecords /\ [][NextNorm]_vars

\* One call of xfetch over a list of one middleware that calls the methods
\* of the Response Record in any sequence, catches or not what they throw,
\* and returns.
ResponseOps ==
  {OpWrite(Str(<<"x">>)), OpWrite(Num(0)), OpStatus(404), OpStatus(204),
   OpSetHeader("Content-Type", <<"text/html">>),
   OpEnd(Undef), OpEnd(Null), OpEnd(Str(<<"x">>)), OpEnd(Str(<<>>)), OpEnd(Num(0)),
   OpEnd(Bool(FALSE)), OpEnd(Uint8ArrayOf(<<RawByte(1)>>)),
   OpJson(Mocked), OpSend(Str(<<"x">>))}

InitResponse ==
  /\ middlewares = 1
  /\ InitCalls

NextResponse ==
  \/ \E d \in Callers : Xfetch(d, [QuickStart EXCEPT !.body = Undef])
  \/ \E d \in Callers, o \in ResponseOps, caught \in BOOLEAN :
       MwResUpTo(d, 0, o, caught, MaxResOps)
  \/ \E d \in Callers : MwReturn(d, 0)
  \/ \E d \in Callers : ReturnResponse(d)
  \/ \E d \in Callers : Fetch(d)
  \/ \E d \in Callers : Fail(d)

SpecResponse == InitResponse /\ [][NextResponse]_vars

\* The URLs and the query objects the composition of the URL is followed for.
UrlInits ==
  {ApiUser, Str(<<"/api/user", "#", "top">>), Str(<<"/api/user", "?", "v", "=", "1">>),
   RequestLike(<<"/api/user">>)}
QueryInits ==
  {Undef, Obj(<<>>),
   Obj(<<Prop(<<"id">>, Num(1))>>),
   Obj(<<Prop(<<"id">>, Num(1)), Prop(<<"page">>, Num(2))>>),
   Obj(<<Prop(<<"filter">>, Obj(<<Prop(<<"id">>, Num(0))>>))>>),
   Obj(<<Prop(<<"ids">>, Arr(<<Num(1), Num(2)>>))>>),
   Obj(<<Prop(<<"ids">>, Arr(<<Num(1)>>))>>),
   Obj(<<Prop(<<"rows">>, Arr(<<Obj(<<Prop(<<"a">>, Num(1))>>), Num(2)>>))>>)}
InitsQuery ==
  {[QuickStart EXCEPT !.input = u, !.query = q] : u \in UrlInits, q \in QueryInits}

\* One call of xfetch with any URL and query, over a list registered
\* beforehand whose middlewares pass the call on (or fail to).
NextQuery ==
  \/ \E d \in Callers, init \in InitsQuery : Xfetch(d, init)
  \/ \E d \in Callers, i \in Frames : MwCall(d, i, i, FALSE)
  \/ \E d \in Callers, i \in Frames : MwAwait(d, i, FALSE)
  \/ \E d \in Callers, i \in Frames : MwReturn(d, i)
  \/ \E d \in Callers : Fetch(d)
  \/ \E d \in Callers : Fail(d)

SpecQuery == InitRecords /\ [][NextQuery]_vars

\* Two calls of xfetch in flight at the same time over a list registered
\* beforehand: the steps of their middlewares interleave in any order; a
\* middleware invokes its continuation any number of times, awaits or drops
\* the promise, ends the response and returns.
NextConcurrent ==
  \/ \E d \in Dispatches : Xfetch(d, QuickStart)
  \/ \E d \in Dispatches, i \in Frames : MwCall(d, i, i, FALSE)
  \/ \E d \in Dispatches, i \in Frames : MwAwait(d, i, FALSE)
  \/ \E d \in Dispatches, i \in Frames : MwReturn(d, i)
  \/ \E d \in Dispatches, i \in Frames : MwResUpTo(d, i, OpEnd(Undef), FALSE, 1)
  \/ \E d \in Dispatches : ReturnResponse(d)
  \/ \E d \in Dispatches : Fetch(d)
  \/ \E d \in Dispatches : Fail(d)

SpecConcurrent == InitRecords /\ [][NextConcurrent]_vars

\* ----------------------------------------------------------- claims
\* a header object has an entry that names Content-Type in some letter case
HasContentType(hs) == \E n \in DOMAIN hs : LowerName(hs[n].k) = "content-type"
CallerContentType(hs) ==
  hs[CHOOSE n \in DOMAIN hs : LowerName(hs[n].k) = "content-type"].v
\* a value JSON represents as it is: no undefined inside, no class instance
RECURSIVE JsonClean(_)
JsonClean(v) ==
  CASE v.t \in {"null", "bool", "num", "str"} -> TRUE
    [] v.t = "arr" -> \A n \in DOMAIN v.items : JsonClean(v.items[n])
    [] v.t = "obj" -> \A n \in DOMAIN v.props : JsonClean(v.props[n].v)
    [] OTHER -> FALSE
\* init.body is a plain object and init gives neither a method nor a Content-Type
PlainObjectOnly(init) ==
  init.body.t = "obj" /\ init.method = Undef /\ ~HasContentType(init.headers)

\* C7 as stated: for a plain-object body and neither a method nor a
\* Content-Type, the Request Record every middleware sees has method POST,
\* the entry application/json under the key "Content-Type", and a body that
\* deep-equals the caller's object.
C7_Original ==
  \A d \in Dispatches, i \in Frames :
    (st[d][i] = "run" /\ PlainObjectOnly(args[d])) =>
      /\ req[d].method = <<"POST">>
      /\ "Content-Type" \in DOMAIN req[d].headers
      /\ req[d].headers["Content-Type"] = CTJson
      /\ req[d].body = args[d].body

\* C7 amended: for a plain-object body and neither a method nor a
\* Content-Type, the Request Record a middleware sees (no middleware having
\* assigned to it) has method POST, the entry application/json under the
\* lower-cased key "content-type" and none under "Content-Type", and a body
\* that deep-equals the caller's object when JSON represents that object as
\* it is; otherwise the body is the object JSON.parse reads back.
C7_RequestRecord ==
  \A d \in Dispatches, i \in Frames :
    (st[d][i] = "run" /\ PlainObjectOnly(args[d])) =>
      /\ req[d].method = <<"POST">>
      /\ "content-type" \in DOMAIN req[d].headers
      /\ req[d].headers["content-type"] = CTJson
      /\ "Content-Type" \notin DOMAIN req[d].headers
      /\ JsonClean(args[d].body) => req[d].body = args[d].body
      /\ req[d].body = Obj(SelectProps(args[d].body.props))

\* C7's case: the second middleware of a chain sees the record of a call
\* whose body is { name: "Alice" }
C7_Witness ==
  \E d \in Dispatches :
    /\ st[d][1] = "run"
    /\ PlainObjectOnly(args[d])
    /\ args[d].body = Alice
    /\ req[d].body = Alice
    /\ req[d].headers = ("content-type" :> CTJson)

\* C8 as stated: an explicit init.method is used; otherwise the method is
\* POST whenever init.body is non-null (the empty string, 0 and false
\* included) and GET only for a null or undefined body; always upper-cased.
C8_MethodResolution ==
  \A d \in Dispatches :
    pc[d] # "idle" =>
      locals[d].method =
        toUpperCase(IF Truthy(args[d].method) THEN args[d].method.s
                    ELSE IF NotNullish(args[d].body) THEN <<"POST">>
                    ELSE <<"GET">>)

\* C9 as stated: the body passed to the network call is the caller's body
\* itself unless that is a plain object or array, which is replaced by its
\* JSON text.
C9_BodyPassThrough ==
  \A d \in Dispatches :
    net[d] # <<>> =>
      net[d][1].body =
        IF args[d].body.t \in {"obj", "arr"} THEN Str(JsonText(args[d].body))
        ELSE args[d].body

\* C10 as stated: a Content-Type the caller gives, in any letter case, keeps
\* its value; without one, Content-Type becomes the form type for a
\* URL-parameter container, application/json for a plain object or array,
\* and stays absent for every other body.
C10_ContentTypeInference ==
  \A d \in Dispatches :
    pc[d] # "idle" =>
      LET h == locals[d].headers
          hs == args[d].headers
          b == args[d].body
      IN IF HasContentType(hs)
         THEN "content-type" \in DOMAIN h /\ h["content-type"] = CallerContentType(hs)
         ELSE IF b.t = "usp"
         THEN "content-type" \in DOMAIN h /\ h["content-type"] = CTForm
         ELSE IF b.t \in {"obj", "arr"}
         THEN "content-type" \in DOMAIN h /\ h["content-type"] = CTJson
         ELSE "content-type" \notin DOMAIN h

\* the Response Record after the calls of a log, from a fresh record
RECURSIVE ResFold(_, _)
ResFold(r, lg) ==
  IF lg = <<>> THEN r
  ELSE ResFold(IF IsReqOp(Head(lg)) THEN r ELSE ApplyOp(r, Head(lg)), Tail(lg))
ResAfter(lg) == ResFold(createResObject, lg)
FinalizedIn(lg) == \E n \in DOMAIN lg : Finalizes(lg[n])
WritesBody(o) == o.op \in {"write", "end", "json", "send"}
\* setHeader under a spelling of Content-Type other than "Content-Type"
OtherSpelling(o) ==
  o.op = "setHeader" /\ LowerName(o.k) = "content-type" /\ o.k # "Content-Type"
\* lg[n] is a call of json that is the first call to write to or end the
\* record, with no header under another spelling of Content-Type and no
\* status new Response rejects set before it, and no call ends the record
\* again after it
JsonFirst(lg, n) ==
  /\ lg[n].op = "json"
  /\ \A m \in 1..(n - 1) : ~WritesBody(lg[m]) /\ ~OtherSpelling(lg[m])
  /\ ~ResponseThrows(ResAfter(SubSeq(lg, 1, n - 1)).statusCode)
  /\ \A m \in (n + 1)..Len(lg) : ~Finalizes(lg[m])
Completed(d) == pc[d] \in {"done", "failed"}

\* C1 as stated: if some middleware of a dispatch calls response.json(x),
\* dispatch returns the deliverable, its body decodes to exactly x, its
\* Content-Type is application/json, and no network call is performed.
C1_Original ==
  \A d \in Dispatches :
    Completed(d) =>
      \A n \in DOMAIN log[d] :
        log[d][n].op = "json" =>
          /\ result[d].kind = "response"
          /\ result[d].value.t = "response"
          /\ DecodeBody(result[d].value) = [ok |-> TRUE, v |-> log[d][n].arg]
          /\ result[d].value.headers["content-type"] = CTJson
          /\ net[d] = <<>>

\* C1 amended: if the Response Record is finalized when the middleware pass
\* completes without error, dispatch returns the record's deliverable as it
\* then stands and performs no network call; and if json(x) was the first
\* call to write to or end the record, no header under another spelling of
\* Content-Type and no status that new Response rejects was set before it,
\* and the record was not ended again before the pass completed, then the
\* body of the deliverable decodes to exactly x and its Content-Type is
\* application/json.
C1_ShortCircuit ==
  \A d \in Dispatches :
    /\ (pc[d] = "done" /\ FinalizedIn(result[d].log)) =>
         /\ result[d].kind = "response"
         /\ result[d].value = ResAfter(result[d].log).response
         /\ net[d] = <<>>
    /\ (pc[d] = "done" /\ result[d].kind = "response") =>
         \A n \in DOMAIN result[d].log :
           JsonFirst(result[d].log, n) =>
             /\ result[d].value.t = "response"
             /\ DecodeBody(result[d].value) = [ok |-> TRUE, v |-> result[d].log[n].arg]
             /\ result[d].value.headers["content-type"] = CTJson

\* C1's case: the second middleware's json({a: 1}) short-circuits a dispatch
C1_Witness ==
  \E d \in Dispatches :
    /\ pc[d] = "done"
    /\ result[d].kind = "response"
    /\ st[d][1] # "none"
    /\ Len(result[d].log) = 2
    /\ JsonFirst(result[d].log, 2)
    /\ result[d].log[2].arg = Mocked
    /\ DecodeBody(result[d].value).v = Mocked
    /\ net[d] = <<>>

\* the method, headers and body xfetch's normalisation gives for the two
\* values of init of SpecRecords
NormalizedQuickStart ==
  [method |-> <<"POST">>,
   headers |-> ("content-type" :> <<"application/json">>),
   body |-> Str(<<"{", "\"", "name", "\"", ":", "\"", "Alice", "\"", "}">>)]
NormalizedEmpty == [method |-> <<"GET">>, headers |-> EmptyHeaders, body |-> Undef]
Normalized(init) == IF init = QuickStart THEN NormalizedQuickStart ELSE NormalizedEmpty

C3_MutationReachesNetwork ==
  \A d \in Dispatches :
    net[d] # <<>> =>
      \A n \in DOMAIN result[d].log :
        LET o == result[d].log[n] IN
          /\ o.op = "req.method" => net[d][1].method = o.m
          /\ o.op = "req.headers" =>
               /\ LowerName(o.k) \in DOMAIN net[d][1].headers
               /\ net[d][1].headers[LowerName(o.k)] = o.v
          /\ o.op = "req.body" => net[d][1].body = o.b

\* C4: the second and any later invocation of the continuation handed to a
\* middleware throws the double-invocation error in the caller, whichever
\* middleware calls it and whether or not the first invocation has
\* completed, and starts no middleware: no position is started twice.
C4_SecondInvocationThrows ==
  \A d \in Dispatches :
    /\ lastCall[d].nth >= 2 => lastCall[d].outcome = "threw"
    /\ lastCall[d].outcome = "threw" => lastCall[d].nth >= 2
    /\ \A a, b \in DOMAIN order[d] : a # b => order[d][a] # order[d][b]

\* C4's case: middleware 1, started by the first invocation of middleware
\* 0's continuation and still running, has invoked that continuation again
C4_Witness ==
  \E d \in Dispatches :
    /\ lastCall[d] = [k |-> 0, by |-> 1, nth |-> 2, outcome |-> "threw"]
    /\ st[d][1] = "run"
    /\ order[d] = <<0, 1>>

\* a step that starts the middleware at j
Starts(d, j) == st[d][j] = "none" /\ st'[d][j] # "none"

\* C5: within a dispatch the middlewares are started in increasing index from
\* 0, each at most once; the one at j > 0 is started only by the first
\* invocation of the continuation handed to the one at j - 1, and while that
\* continuation has not been invoked none at j or beyond is started.
C5_Order ==
  /\ [](\A d \in Dispatches :
          /\ order[d] = [n \in 1..Len(order[d]) |-> n - 1]
          /\ \A j \in Frames : st[d][j] # "none" <=> j < Len(order[d])
          /\ \A j \in Frames \ {0} :
               calls[d][j - 1] = 0 => \A m \in Frames : m >= j => st[d][m] = "none")
  /\ [][\A d \in Dispatches, j \in Frames \ {0} :
          Starts(d, j) =>
            /\ calls[d][j - 1] = 0
            /\ lastCall'[d].k = j - 1
            /\ lastCall'[d].nth = 1
            /\ lastCall'[d].outcome = "started"]_vars

\* C5's case: both middlewares were started, the second by the first
\* invocation of the first one's continuation, and a second invocation of
\* that continuation started nothing
C5_Witness ==
  \E d \in Dispatches :
    /\ order[d] = <<0, 1>>
    /\ st[d][0] = "ret"
    /\ st[d][1] = "run"
    /\ calls[d][0] = 2

\* C6: any error raised inside any middleware of a dispatch, the
\* double-invocation error included, makes the dispatch fail with that error:
\* it returns no deliverable and performs no network call.
C6_Original ==
  \A d \in Dispatches :
    (Completed(d) /\ \E i \in Frames : st[d][i] = "err") =>
      /\ pc[d] = "failed"
      /\ result[d].err \in {ferr[d][i] : i \in {x \in Frames : st[d][x] = "err"}}
      /\ result[d].kind = "error"
      /\ net[d] = <<>>

\* a step in which a middleware of d calls the method o of the record
Calls(d, o) == log'[d] = Append(log[d], o)
\* the last call of a log is one that ends the record
EndedLast(lg) == lg # <<>> /\ Finalizes(lg[Len(lg)])
\* no call of write since the last call that ended the record
NoWriteSinceEnd(lg) ==
  \E n \in DOMAIN lg :
    /\ Finalizes(lg[n])
    /\ \A m \in (n + 1)..Len(lg) : lg[m].op # "write" /\ ~Finalizes(lg[m])

\* C11 as stated: end() on a finalized record, with no write between the two
\* end calls, yields a deliverable with the status, headers and body bytes
\* of the deliverable the previous end computed.
C11_Original ==
  [][\A d \in Dispatches :
       (res[d]._sent /\ NoWriteSinceEnd(log[d]) /\ Calls(d, OpEnd(Undef))) =>
         res'[d].response = res[d].response]_vars

\* C11 amended: end() on a finalized record, with no call of write, status
\* or setHeader since the call that ended it, yields a deliverable with the
\* same status, headers and body bytes as that call computed; when that
\* call threw in new Response, end() throws again and leaves the deliverable
\* as it was.
C11_EndIdempotent ==
  [][\A d \in Dispatches :
       (res[d]._sent /\ EndedLast(log[d]) /\ Calls(d, OpEnd(Undef))) =>
         /\ res'[d].response = res[d].response
         /\ res'[d]._sent]_vars

\* C11's case: end() twice on a record with the body "x"
C11_Witness ==
  \E d \in Dispatches :
    /\ log[d] = <<OpWrite(Str(<<"x">>)), OpEnd(Undef), OpEnd(Undef)>>
    /\ res[d]._sent
    /\ res[d].response.t = "response"
    /\ TextDecode(res[d].response.body) = <<"x">>
    /\ res[d].response.status = 200

\* a step in which a middleware of d calls end, json or send
CallsFinalizer(d) ==
  /\ Len(log'[d]) = Len(log[d]) + 1
  /\ Finalizes(log'[d][Len(log'[d])])

\* C12 as stated: once a Response Record is finalized, no later operation on
\* it (write, status, setHeader, end, json, send) changes the status, headers
\* or body bytes of its deliverable.
C12_Original ==
  [][\A d \in Dispatches :
       res[d]._sent => res'[d].response = res[d].response]_vars

\* C12 amended: once a Response Record is finalized, no later call of write,
\* status or setHeader changes the status, headers or body bytes of its
\* deliverable; a later call of end, json or send replaces the deliverable by
\* one built from the status, headers and chunks the record then holds
\* (unless new Response throws, which leaves it as it was).
C12_Frozen ==
  [][\A d \in Dispatches :
       res[d]._sent =>
         /\ res'[d]._sent
         /\ ~CallsFinalizer(d) => res'[d].response = res[d].response
         /\ (CallsFinalizer(d) /\ ~ResponseThrows(res'[d].statusCode)) =>
              /\ res'[d].response.status = res'[d].statusCode
              /\ res'[d].response.body = Flatten(res'[d].bodyChunks)
         /\ (CallsFinalizer(d) /\ ResponseThrows(res'[d].statusCode)) =>
              res'[d].response = res[d].response]_vars

\* C12's case: write and status after end leave the deliverable empty, 200
C12_Witness ==
  \E d \in Dispatches :
    /\ log[d] = <<OpEnd(Undef), OpWrite(Str(<<"x">>)), OpStatus(404)>>
    /\ res[d].response.t = "response"
    /\ res[d].response.status = 200
    /\ res[d].response.body = <<>>
    /\ res[d].statusCode = 404
    /\ res[d].bodyChunks # <<>>

\* a query value whose leaves are non-negative integers
RECURSIVE IntegerLeaves(_)
IntegerLeaves(v) ==
  CASE v.t = "num" -> v.n >= 0
    [] v.t = "arr" -> \A i \in DOMAIN v.items : IntegerLeaves(v.items[i])
    [] v.t = "obj" -> \A i \in DOMAIN v.props : IntegerLeaves(v.props[i].v)
    [] OTHER -> FALSE

\* C13: for a query object whose values are non-negative integers, nested
\* objects and arrays included, and a base URL without a query string, the
\* composed URL is the base URL, "?" and the serialized query, and the
\* Request Record's query deep-equals init.query, the values numbers and the
\* nesting and the arrays preserved.
C13_QueryRoundTrip ==
  \A d \in Dispatches :
    (/\ pc[d] # "idle"
     /\ args[d].query.t = "obj"
     /\ IntegerLeaves(args[d].query)
     /\ ~Includes(UrlOf(args[d].input), "?")) =>
      /\ locals[d].finalUrl =
           UrlOf(args[d].input) \o <<"?">> \o qsStringify(args[d].query)
      /\ req[d].query = args[d].query

\* C14: dispatches in flight at the same time do not interfere through the
\* engine.  Each has its own index, called flags and Response Record: in
\* every interleaving the index of a dispatch is the last position it started
\* itself, a continuation raises the double-invocation error only on its
\* second or later invocation within its own dispatch, and a dispatch skips
\* its network call only when its own middlewares ended its own record.
C14_Independent ==
  \A d \in Dispatches :
    /\ pc[d] = "idle" => index[d] = -1
    /\ pc[d] # "idle" =>
         /\ index[d] \in {Len(order[d]) - 1, Len(order[d])}
         /\ index[d] >= 0 /\ index[d] <= middlewares
         /\ index[d] = Len(order[d]) => index[d] = middlewares
    /\ order[d] = [n \in 1..Len(order[d]) |-> n - 1]
    /\ lastCall[d].outcome # "rejected"
    /\ lastCall[d].outcome = "threw" <=> lastCall[d].nth >= 2
    /\ \A i \in Frames : called[d][i] <=> calls[d][i] > 0
    /\ res[d]._sent <=> FinalizedIn(log[d])
    /\ pc[d] = "done" =>
         /\ result[d].kind = "response" <=> FinalizedIn(result[d].log)
         /\ result[d].kind = "network" <=> Len(net[d]) = 1
    /\ pc[d] # "done" => net[d] = <<>>

\* C14's case: both dispatches are in flight; the first has ended its record
\* in its first middleware, the second has moved on to its second middleware
C14_Witness ==
  /\ pc[1] = "chain" /\ pc[2] = "chain"
  /\ res[1]._sent /\ index[1] = 0 /\ calls[1][0] = 0
  /\ ~res[2]._sent /\ index[2] = 1 /\ calls[2][0] = 1
  /\ lastCall[2].outcome = "started"

\* C15 as stated: the choice between the deliverable and the network call
\* is made only after every middleware the dispatch started has completed;
\* after the choice no middleware of the dispatch takes a step and none ends
\* the record; and a middleware does not complete while one started after it
\* is still running (their steps are nested, never interleaved).
C15_Original ==
  [][\A d \in Dispatches :
       /\ (pc[d] = "chain" /\ pc'[d] = "done") =>
            \A i \in Frames : st[d][i] # "run"
       /\ pc[d] = "done" =>
            /\ st'[d] = st[d] /\ got'[d] = got[d] /\ calls'[d] = calls[d]
            /\ log'[d] = log[d] /\ res'[d] = res[d]
       /\ \A i, j \in Frames :
            (i < j /\ st[d][i] = "run" /\ st'[d][i] # "run") => st[d][j] # "run"]_vars

\* C16 as stated: once a middleware of a dispatch has raised, no middleware
\* of the dispatch that was not yet started is started, and once the
\* dispatch has failed no middleware of it takes a further step.
C16_Original ==
  [][\A d \in Dispatches :
       /\ (\E i \in Frames : st[d][i] = "err") => \A j \in Frames : ~Starts(d, j)
       /\ pc[d] = "failed" =>
            /\ st'[d] = st[d] /\ got'[d] = got[d] /\ calls'[d] = calls[d]
            /\ log'[d] = log[d] /\ res'[d] = res[d]]_vars

\* what a Response Record shows: its fields, the buffer as the bytes it holds
Shown(r) ==
  [_sent |-> r._sent, statusCode |-> r.statusCode, headers |-> r.headers,
   buffered |-> Flatten(r.bodyChunks), response |-> r.response]

\* C17 as stated: end(c) leaves the Response Record and its deliverable as
\* write(c) followed by end() does, for every chunk c that write accepts (the
\* empty string, binary chunks, 0 and false included); for c null or
\* undefined, which write ignores, end(c) is end().
C17_Original ==
  [][\A d \in Dispatches :
       \A o \in {x \in ResponseOps : x.op = "end"} :
         Calls(d, o) => Shown(res'[d]) = Shown(end(write(res[d], o.arg), Undef))]_vars

\* C18 as stated: in every state of a Response Record the deliverable is
\* present exactly when the finalized flag is set, the flag never returns
\* from true to false, and a dispatch that takes the finalized branch returns
\* a present deliverable.
C18_Original ==
  /\ [](\A d \in Dispatches :
          /\ res[d].response # NoResponse <=> res[d]._sent
          /\ result[d].kind = "response" => result[d].value # NoResponse)
  /\ [][\A d \in Dispatches : (res[d]._sent /\ pc'[d] # "idle") => res'[d]._sent]_vars

\* the chain of d has run off the end of the list: its last next(j) found no
\* entry at j
RanOffEnd(d) == pc[d] # "idle" /\ index[d] = Len(order[d])

\* C19: entries appended to the list while a dispatch is in flight do not
\* break its ordering.  Under every interleaving of appends with the steps of
\* the chain, the dispatch starts each index at most once and in increasing
\* order; once its chain has run off the end of the list it starts no
\* middleware, whatever is appended later; and when its chain reaches an
\* index (the dispatch begins, or the continuation of the entry before is
\* first invoked) at which an entry has been appended by then, it runs it.
C19_AppendsKeepOrder ==
  /\ [](\A d \in Dispatches : order[d] = [n \in 1..Len(order[d]) |-> n - 1])
  /\ [][\A d \in Dispatches :
          /\ RanOffEnd(d) => order'[d] = order[d] /\ \A j \in Frames : ~Starts(d, j)
          /\ (pc[d] = "idle" /\ pc'[d] # "idle" /\ Lookup(middlewares, 0)) => Starts(d, 0)
          /\ \A j \in Frames \ {0} :
               (calls[d][j - 1] = 0 /\ calls'[d][j - 1] = 1 /\ Lookup(middlewares, j)) =>
                 Starts(d, j)]_vars

\* C19's case: the chain ran off the end of a list of one entry, whose
\* middleware is still running, and a second entry was appended afterwards:
\* it has not been started
C19_Witness ==
  \E d \in Dispatches :
    /\ pc[d] = "chain"
    /\ st[d][0] = "run" /\ calls[d][0] = 2
    /\ index[d] = 1 /\ order[d] = <<0>>
    /\ middlewares = 2 /\ st[d][1] = "none"

\* a step in which the continuation handed to the middleware at k is invoked
\* for the first time
FirstInvocation(d, k) == calls[d][k] = 0 /\ calls'[d][k] = 1

\* C20: every entry into next(i) has i = index + 1.  The index of a dispatch
\* starts at -1 and is 0 or more once the dispatch has entered next(0), it
\* never exceeds the length of the list, each step leaves it or raises it by
\* exactly one, the first invocation of the continuation of k enters
\* next(k + 1) with index = k, and the index guard never fires: a repeated
\* invocation of a continuation is rejected by its single-use flag before.
C20_IndexInvariant ==
  /\ [](\A d \in Dispatches :
          /\ pc[d] = "idle" => index[d] = -1
          /\ pc[d] # "idle" => index[d] >= 0
          /\ index[d] <= middlewares
          /\ lastCall[d].outcome # "rejected"
          /\ \A k \in Frames : calls[d][k] > 0 => (called[d][k] /\ index[d] > k))
  /\ [][\A d \in Dispatches :
          /\ index'[d] \in {index[d], index[d] + 1}
          /\ \A k \in Frames :
               /\ FirstInvocation(d, k) =>
                    /\ ContinuationTarget(k) = index[d] + 1
                    /\ index'[d] = ContinuationTarget(k)
                    /\ lastCall'[d].outcome \in {"started", "ended"}
               /\ (calls[d][k] > 0 /\ lastCall'[d] # lastCall[d] /\ lastCall'[d].k = k) =>
                    /\ lastCall'[d].outcome = "threw"
                    /\ index'[d] = index[d]]_vars

\* C20's case: the chain has advanced past the list of two; middleware 1 has
\* invoked the continuation of middleware 0 again, which the single-use flag
\* rejected
C20_Witness ==
  \E d \in Dispatches :
    /\ pc[d] = "chain"
    /\ middlewares = 2 /\ index[d] = 2
    /\ lastCall[d] = [k |-> 0, by |-> 1, nth |-> 2, outcome |-> "threw"]
    /\ called[d][0] /\ called[d][1]

====
